---- MODULE Spec2Model ----
(***************************************************************************)
(* Lead lifecycle and bulk-mutation model of Spruce ERP.                   *)
(*                                                                         *)
(* The store is the module-level array `leads` of src/lib/data.ts and the  *)
(* exported array `tasks` of src/lib/tasks-data.ts.  The operations are    *)
(* the server actions of src/app/actions.ts, each taken as one atomic step *)
(* (a server action runs to completion on a single thread).                *)
(*                                                                         *)
(* Text values are TLA+ strings.  A value that FormData.get() reports as   *)
(* absent is Null, a JavaScript undefined (or a missing key) is Undefined. *)
(* The clock counts ticks; a stored date is the string toISOString()       *)
(* gives for an instant, and DateParse reads such a string back.           *)
(***************************************************************************)
EXTENDS Integers, Sequences, FiniteSets, TLC

VARIABLES
    leads,      \* data.ts: let leads: Lead[]
    tasks,      \* tasks-data.ts: export const tasks: Task[]
    now,        \* the wall clock read by Date.now() / new Date()
    issued,     \* history: every id ever given to a lead
    nOps,       \* number of requests served so far
    last,       \* the last request served and the result returned for it
    shown,      \* CrmPage: useState<Lead[]>([]), the `leads` prop of the dialogs
    selectedCounselors, \* DistributeLeadsDialog: useState<string[]>([])
    column,     \* KanbanColumn: isSorted and the displayedLeads it renders
    dlg,        \* the delete dialogs of BulkActionsToolbar and ContactsTable
    inflight    \* bulk-update requests issued together, with their answers

vars == <<leads, tasks, now, issued, nOps, last, shown, selectedCounselors, column, dlg, inflight>>

\* the state of the browser
uiVars == <<shown, selectedCounselors, column, dlg, inflight>>

---------------------------------------------------------------------------
(* Bounds of the exploration *)

SeedCount == 2      \* leads generated on an empty store (getLeads asks for 100)
MaxOps    == 2      \* requests served in one behaviour
MaxPicked == 3      \* counselors ticked in the distribution dialog at a time
MaxTasks  == 3      \* tasks planned in one behaviour of the Kanban board
MaxTicks  == 1      \* times the clock is seen to advance in one behaviour
ShownCount == 3     \* leads generated in the browser (getLeads asks for 100)
Epoch     == 5      \* the clock reading when the process starts
Horizon   == 9      \* the latest instant a date string of the model denotes

---------------------------------------------------------------------------
(* JavaScript values *)

Null      == "#null"
Undefined == "#undefined"

Falsy(v)  == v = Null \/ v = Undefined \/ v = ""

\* An array-valued property that may be undefined: the array, or no array
Arr(items)   == [defined |-> TRUE, items |-> items]
UndefinedArr == [defined |-> FALSE, items |-> <<>>]

\* a || undefined
OrUndefined(v) == IF Falsy(v) THEN Undefined ELSE v

Range(s) == {s[i] : i \in 1..Len(s)}

RECURSIVE SelectSeqR(_, _)
\* Array.prototype.filter
SelectSeqR(s, keep) ==
    IF s = <<>> THEN <<>>
    ELSE (IF keep[Head(s)] THEN <<Head(s)>> ELSE <<>>) \o SelectSeqR(Tail(s), keep)

Digit(d) == CASE d = 0 -> "0" [] d = 1 -> "1" [] d = 2 -> "2" [] d = 3 -> "3"
              [] d = 4 -> "4" [] d = 5 -> "5" [] d = 6 -> "6" [] d = 7 -> "7"
              [] d = 8 -> "8" [] d = 9 -> "9"

RECURSIVE ToStr(_)
\* String(n) for a natural number n
ToStr(n) == IF n < 10 THEN Digit(n) ELSE ToStr(n \div 10) \o Digit(n % 10)

RECURSIVE PadStart(_, _)
\* s.padStart(w, '0')
PadStart(s, w) == IF Len(s) >= w THEN s ELSE PadStart("0" \o s, w)

\* String(n).padStart(3, '0')
LeadId(n) == PadStart(ToStr(n), 3)

\* new Date(t).toISOString()
ISO(t) == "T" \o PadStart(ToStr(t), 3)

NaN == 0 - 1

\* the date strings of the instants up to the horizon
IsoStrings == [t \in 0..Horizon |-> ISO(t)]

\* the instant each of these strings denotes
IsoInstants == [s \in {IsoStrings[t] : t \in 0..Horizon} |->
                   CHOOSE t \in 0..Horizon : IsoStrings[t] = s]

\* Date.parse(s): the instant a date string denotes, NaN for any other text
DateParse(s) == IF s \in DOMAIN IsoInstants THEN IsoInstants[s] ELSE NaN

\* The length of a calendar day in ticks; local midnight falls on the ticks
\* t with (t + 1) % DayLength = 0.
DayLength == 3

\* startOfDay(t) of date-fns, in local time
StartOfDay(t) == t - ((t + 1) % DayLength)

\* isToday(new Date(s)): false for a text that is no date
IsToday(s) == DateParse(s) # NaN /\ StartOfDay(DateParse(s)) = StartOfDay(now)

---------------------------------------------------------------------------
(* Fixed data *)

KANBAN_STAGES == <<"New", "Contacted", "Qualified", "Application", "Enrolled", "Dropped">>

Stages == Range(KANBAN_STAGES)

\* users.filter(u => u.role.id === 'counselor').map(c => c.id)
counselors == <<"user-5", "user-6", "user-11", "user-12">>

SystemUser == "user-1"

---------------------------------------------------------------------------
(* Seed generation *)

\* The shapes of one generated lead that the exploration draws from.  Each
\* is an outcome the random generator can produce.
SeedShapes == {"fresh", "worked"}

SeedActivity(i, j, ts, who) ==
    [id |-> "ACT-" \o ToStr(i) \o "-" \o ToStr(j), type |-> "Call", timestamp |-> ts,
     outcome |-> "Sent info", notes |-> "This is a sample note for the activity.",
     userId |-> who]

SeedTask(i, due, prio, who) ==
    [id |-> "TSK-" \o ToStr(i), leadId |-> LeadId(i), type |-> "Follow-up",
     dueDate |-> due, status |-> "Pending", priority |-> prio,
     notes |-> "Follow up with lead", assignedUserId |-> who]

\* One iteration of the loop of generateLeads, for the drawn shape.
SeedLead(i, shape) ==
    [id |-> LeadId(i),
     name |-> "Aarav Sharma",
     email |-> "aarav.sharma" \o ToStr(i) \o "@example.com",
     avatarUrl |-> ToStr(i),
     stage |-> IF shape = "fresh" THEN "New" ELSE "Contacted",
     createdAt |-> ISO(now - 2),
     source |-> IF shape = "fresh" THEN "Website" ELSE "Referral",
     phoneNumbers |-> Arr(<<[title |-> "Mobile",
                              number |-> "98765" \o PadStart(ToStr(10000 + i), 5)]>>),
     education |-> "B.Com",
     college |-> "IGNOU",
     status |-> "Pursuing",
     courseInterest |-> "Data Science",
     assignedUserId |-> IF shape = "fresh" THEN counselors[1] ELSE counselors[2],
     address |-> Undefined,
     city |-> "Pune",
     gender |-> "Female",
     dob |-> ISO(1),
     activities |-> IF shape = "fresh" THEN <<>>
                    ELSE <<SeedActivity(i, 0, ISO(now - 1), counselors[1])>>,
     tasks |-> IF shape = "worked" THEN <<SeedTask(i, ISO(now + 1), "High", counselors[2])>>
               ELSE <<>>,
     documents |-> <<>>,
     contacts |-> <<>>]

\* generateLeads(count): the lists the generator can return on an empty store
generateLeads(count) ==
    {[i \in 1..count |-> SeedLead(i, sh[i])] : sh \in [1..count -> SeedShapes]}

\* getLeads(): the store after the call, `g` being what the generator draws
getLeads(ls, g) == IF Len(ls) = 0 THEN g ELSE ls

\* What the generator may draw when getLeads() is called on the store ls
Draws(ls) == IF Len(ls) = 0 THEN generateLeads(SeedCount) ELSE {ls}

RECURSIVE FlatTasks(_)
\* getLeads().flatMap(lead => lead.tasks)
FlatTasks(ls) == IF ls = <<>> THEN <<>> ELSE Head(ls).tasks \o FlatTasks(Tail(ls))

---------------------------------------------------------------------------
(* Store primitives (src/lib/data.ts) *)

\* Array.prototype.findIndex(lead => lead.id === id); 0 stands for -1
FindIndex(ls, id) ==
    IF \E i \in 1..Len(ls) : ls[i].id = id
    THEN CHOOSE i \in 1..Len(ls) : ls[i].id = id /\ \A j \in 1..(i - 1) : ls[j].id # id
    ELSE 0

\* a merge in which the stored fields win
SpreadKeeping(a, b) == a

\* Object spread { ...a, ...b } restricted to the keys of a lead: a key that b
\* carries (also with the value undefined) overwrites a's.
Spread(a, b) == [k \in DOMAIN a |-> IF k \in DOMAIN b THEN b[k] ELSE a[k]]

\* addLead(lead): the store after the call; cur is getLeads() at entry
addLead(cur, lead) ==
    LET n      == Len(cur) + 1
        newId  == LeadId(n)
        creationActivity ==
            [id |-> "ACT-" \o newId \o "-0", type |-> "System", timestamp |-> ISO(now),
             outcome |-> "Lead Created",
             notes |-> "Lead was created in the system via " \o lead.source \o ".",
             userId |-> SystemUser]
        newLead ==
            [id |-> newId,
             name |-> lead.name, email |-> lead.email, source |-> lead.source,
             phoneNumbers |-> lead.phoneNumbers, education |-> lead.education,
             college |-> lead.college, status |-> lead.status,
             courseInterest |-> lead.courseInterest, address |-> lead.address,
             city |-> lead.city, gender |-> lead.gender, dob |-> lead.dob,
             stage |-> "New", avatarUrl |-> ToStr(n), createdAt |-> ISO(now),
             assignedUserId |-> SystemUser, activities |-> <<creationActivity>>,
             tasks |-> <<>>, documents |-> <<>>, contacts |-> <<>>]
    IN  <<newLead>> \o cur

\* an update that starts the lead's history afresh
updateLeadClearing(cur, updatedLead) ==
    LET leadIndex == FindIndex(cur, updatedLead.id)
    IN  IF leadIndex = 0 THEN cur
        ELSE [cur EXCEPT ![leadIndex] =
                [Spread(cur[leadIndex], updatedLead) EXCEPT !.activities = <<>>]]

\* updateLead(updatedLead): the store after the call (unchanged when the id
\* is not found and the function returns null); cur is getLeads() at entry
updateLead(cur, updatedLead) ==
    LET leadIndex == FindIndex(cur, updatedLead.id)
    IN  IF leadIndex = 0 THEN cur
        ELSE [cur EXCEPT ![leadIndex] = Spread(cur[leadIndex], updatedLead)]

\* new Map(pairs.map(item => [item.leadId, item.assignedUserId])).get(id):
\* of several pairs with the same key the last one stays
MapGet(pairs, id) ==
    LET k == CHOOSE i \in 1..Len(pairs) :
                /\ pairs[i].leadId = id
                /\ \A j \in (i + 1)..Len(pairs) : pairs[j].leadId # id
    IN  pairs[k].assignedUserId

MapHas(pairs, id) == \E i \in 1..Len(pairs) : pairs[i].leadId = id

\* a bulk update whose single update reaches the first selected lead only
bulkUpdateLeadsFirstOnly(ls, leadIds, updates) ==
    IF updates.assignedUserIds.defined
    THEN [i \in 1..Len(ls) |->
            IF MapHas(updates.assignedUserIds.items, ls[i].id)
            THEN [ls[i] EXCEPT !.assignedUserId =
                                  MapGet(updates.assignedUserIds.items, ls[i].id)]
            ELSE ls[i]]
    ELSE [i \in 1..Len(ls) |->
            IF leadIds # <<>> /\ ls[i].id = leadIds[1]
            THEN Spread(ls[i], [k \in (IF Falsy(updates.stage) THEN {} ELSE {"stage"})
                                   \cup (IF Falsy(updates.assignedUserId) THEN {}
                                         ELSE {"assignedUserId"}) |-> updates[k]])
            ELSE ls[i]]

\* bulkUpdateLeads(leadIds, updates): the store after the call.  It works on
\* the array as it is, without going through getLeads().
bulkUpdateLeads(ls, leadIds, updates) ==
    IF updates.assignedUserIds.defined
    THEN [i \in 1..Len(ls) |->
            IF MapHas(updates.assignedUserIds.items, ls[i].id)
            THEN [ls[i] EXCEPT !.assignedUserId =
                                  MapGet(updates.assignedUserIds.items, ls[i].id)]
            ELSE ls[i]]
    ELSE LET singleUpdate ==
                [k \in (IF Falsy(updates.stage) THEN {} ELSE {"stage"})
                       \cup (IF Falsy(updates.assignedUserId) THEN {} ELSE {"assignedUserId"})
                    |-> updates[k]]
         IN  IF DOMAIN singleUpdate # {}
             THEN [i \in 1..Len(ls) |->
                     IF ls[i].id \in Range(leadIds)
                     THEN Spread(ls[i], singleUpdate) ELSE ls[i]]
             ELSE ls

\* bulkDeleteLeads(leadIds): leads.filter(lead => !leadIds.includes(lead.id))
bulkDeleteLeads(ls, leadIds) ==
    SelectSeqR(ls, [l \in Range(ls) |-> l.id \notin Range(leadIds)])

\* an addActivity that puts the new activity at the end of the list
addActivityPushed(cur, leadId, activityData) ==
    LET k == FindIndex(cur, leadId)
        newActivity ==
            [id |-> "ACT-" \o ToStr(now), type |-> activityData.type,
             timestamp |-> ISO(now), outcome |-> activityData.outcome,
             notes |-> activityData.notes, userId |-> activityData.userId]
    IN  [cur EXCEPT ![k].activities = Append(@, newActivity)]

\* addActivity(leadId, activityData): the store after the call, for a lead
\* that exists; cur is getLeads() at entry
addActivity(cur, leadId, activityData) ==
    LET k == FindIndex(cur, leadId)
        newActivity ==
            [id |-> "ACT-" \o ToStr(now), type |-> activityData.type,
             timestamp |-> ISO(now), outcome |-> activityData.outcome,
             notes |-> activityData.notes, userId |-> activityData.userId]
    IN  [cur EXCEPT ![k].activities = <<newActivity>> \o @]

\* The task that addTask(leadId, taskData) of tasks-data.ts builds
NewTask(leadId, taskData) ==
    [id |-> "TSK-" \o ToStr(now), status |-> "Pending", leadId |-> taskData.leadId,
     type |-> taskData.type, dueDate |-> taskData.dueDate,
     priority |-> taskData.priority, notes |-> taskData.notes,
     assignedUserId |-> taskData.assignedUserId]

\* addTask(leadId, taskData): the leads after lead.tasks.push(newTask), for a
\* lead that exists; cur is getLeads() at entry
addTask(cur, leadId, taskData) ==
    [cur EXCEPT ![FindIndex(cur, leadId)].tasks = Append(@, NewTask(leadId, taskData))]

---------------------------------------------------------------------------
(* Initial state: tasks-data.ts is loaded with actions.ts, and its          *)
(* initialiser calls getLeads(), so the store is seeded before any request. *)

NoRequest == [op |-> "none"]

\* The two dialogs that ask for a typed confirmation before a delete
DialogKinds == {"bulk", "single"}

\* useState(false), useState(""), no transition under way, and nothing
\* selected (rowSelection {} for the toolbar, leadToDelete null for the table)
ClosedDialog == [open |-> FALSE, text |-> "", targets |-> <<>>, sent |-> <<>>]

Init ==
    /\ now = Epoch
    /\ leads \in generateLeads(SeedCount)
    /\ tasks = FlatTasks(leads)
    /\ issued = {leads[i].id : i \in 1..Len(leads)}
    /\ nOps = 0
    /\ last = NoRequest
    /\ shown = <<>>
    /\ selectedCounselors = <<>>
    /\ column = [isSorted |-> FALSE, displayedLeads |-> <<>>]
    /\ dlg = [k \in DialogKinds |-> ClosedDialog]
    /\ inflight = <<>>

---------------------------------------------------------------------------
(* Validation (the zod schemas of src/app/actions.ts)                       *)
(*                                                                          *)
(* A schema check yields "ok", "dirty" (an issue that lets parsing go on:   *)
(* a failed min(), email() or refine()) or "aborted" (a type or enum issue: *)
(* the enclosing object is invalid and its refinements are not run).        *)

\* z.string().optional() and z.string(): FormData.get() gives null for an
\* absent entry, which neither accepts; only optional() accepts undefined.
StrOptional(v) == IF v = Null THEN "aborted" ELSE "ok"

StrRequired(v) == IF v = Null \/ v = Undefined THEN "aborted" ELSE "ok"

\* z.string().min(n)
StrMin(v, n) ==
    IF v = Null \/ v = Undefined THEN "aborted"
    ELSE IF Len(v) < n THEN "dirty" ELSE "ok"

\* an optional field that takes any string
EnumOptionalAnyString(v, values) == IF v = Null THEN "aborted" ELSE "ok"

\* z.enum(values).optional()
EnumOptional(v, values) ==
    IF v = Undefined THEN "ok" ELSE IF v \in values THEN "ok" ELSE "aborted"

\* z.enum(values)
EnumRequired(v, values) == IF v \in values THEN "ok" ELSE "aborted"

\* The sample addresses the requests draw from that z.string().email() accepts
WellFormedEmails == {"asha@example.com", "ravi@example.com"}

\* z.string().email()
Email(v) ==
    IF v = Null \/ v = Undefined THEN "aborted"
    ELSE IF v \in WellFormedEmails THEN "ok" ELSE "dirty"

\* The sample numbers the requests draw from that match /^\+?[1-9]\d{9,14}$/
PhoneRegexMatches == {"9876510001", "+919876510002"}

\* z.array(z.object({ title: min(1), number: refine(phoneRegex) })).optional()
PhoneNumbers(v) ==
    IF ~v.defined THEN "ok"
    ELSE IF \E i \in 1..Len(v.items) :
                Len(v.items[i].title) < 1 \/ v.items[i].number \notin PhoneRegexMatches
         THEN "dirty" ELSE "ok"

\* phoneTitles.map((title, index) => ({title, number: phoneNumbersData[index]}))
\*            .filter(p => p.number), then `length > 0 ? phoneNumbers : undefined`
ParsePhones(ps) ==
    LET kept == SelectSeqR(ps, [p \in Range(ps) |-> ~Falsy(p.number)])
    IN  IF Len(kept) > 0 THEN Arr(kept) ELSE UndefinedArr

AcademicStatuses == {"Passed", "Pursuing"}
Genders == {"Male", "Female", "Other"}

\* rawData of addLeadAction
AddLeadRaw(f) ==
    [name |-> f.name, email |-> f.email, phoneNumbers |-> ParsePhones(f.phones),
     source |-> f.source, socialMediaSource |-> f.socialMediaSource,
     otherSource |-> f.otherSource, referralSource |-> f.referralSource,
     education |-> f.education, college |-> f.college, status |-> f.status,
     courseInterest |-> f.courseInterest, address |-> f.address, city |-> f.city,
     gender |-> f.gender, dob |-> f.dob]

\* addLeadFormSchema, the object part: the check of each key
AddLeadChecks(d) ==
    [name |-> StrMin(d.name, 2), email |-> Email(d.email),
     phoneNumbers |-> PhoneNumbers(d.phoneNumbers), source |-> StrMin(d.source, 1),
     socialMediaSource |-> StrOptional(d.socialMediaSource),
     otherSource |-> StrOptional(d.otherSource),
     referralSource |-> StrOptional(d.referralSource),
     education |-> StrOptional(d.education), college |-> StrOptional(d.college),
     status |-> EnumOptional(d.status, AcademicStatuses),
     courseInterest |-> StrOptional(d.courseInterest),
     address |-> StrOptional(d.address), city |-> StrOptional(d.city),
     gender |-> EnumOptional(d.gender, Genders), dob |-> StrOptional(d.dob)]

\* the three .refine() rules of addLeadFormSchema: the paths they report
AddLeadRefinements(d) ==
    (IF d.source = "Other" /\ Falsy(d.otherSource) THEN {"otherSource"} ELSE {})
    \cup (IF d.source = "Social Media" /\ Falsy(d.socialMediaSource)
          THEN {"socialMediaSource"} ELSE {})
    \cup (IF d.source = "Referral" /\ Falsy(d.referralSource)
          THEN {"referralSource"} ELSE {})

\* a parser that reports type and enum issues only
FieldErrorsTypeOnly(checks, refinements) ==
    {k \in DOMAIN checks : checks[k] = "aborted"}

\* safeParse: the keys of error.flatten().fieldErrors ({} on success)
FieldErrors(checks, refinements) ==
    LET issues == {k \in DOMAIN checks : checks[k] # "ok"}
    IN  IF \E k \in DOMAIN checks : checks[k] = "aborted"
        THEN issues
        ELSE issues \cup refinements

\* addLeadFormSchema.safeParse(rawData)
AddLeadErrors(d) == FieldErrors(AddLeadChecks(d), AddLeadRefinements(d))

\* a finalSource that composes the qualifier for "Other" as for the other two
FinalSourceComposed(d) ==
    IF d.source = "Other" THEN d.source \o " - " \o d.otherSource
    ELSE IF d.source = "Social Media" THEN d.source \o " - " \o d.socialMediaSource
    ELSE IF d.source = "Referral" THEN d.source \o " - " \o d.referralSource
    ELSE d.source

\* finalSource of addLeadAction
FinalSource(d) ==
    IF d.source = "Other" THEN d.otherSource
    ELSE IF d.source = "Social Media" THEN d.source \o " - " \o d.socialMediaSource
    ELSE IF d.source = "Referral" THEN d.source \o " - " \o d.referralSource
    ELSE d.source

---------------------------------------------------------------------------
(* Results returned by the server actions *)

Message(op, r, text) == [op |-> op, req |-> r, kind |-> "message", text |-> text, fields |-> {}]

Errors(op, r, fields) == [op |-> op, req |-> r, kind |-> "errors", text |-> "", fields |-> fields]

Error(op, r, text) == [op |-> op, req |-> r, kind |-> "error", text |-> text, fields |-> {}]

---------------------------------------------------------------------------
(* Requests *)

\* A form in which every entry is supplied and valid
AddLeadBase ==
    [name |-> "Asha", email |-> "asha@example.com",
     phones |-> <<[title |-> "Mobile", number |-> "9876510001"]>>,
     source |-> "Website", socialMediaSource |-> "Instagram", otherSource |-> "Fair",
     referralSource |-> "Ravi", education |-> "BCA", college |-> "SPPU",
     status |-> "Passed", courseInterest |-> "Web Development", address |-> "MG Road",
     city |-> "Pune", gender |-> "Female", dob |-> ISO(2)]

With(r, k, v) == [r EXCEPT ![k] = v]

\* The create-lead forms submitted: each source with its qualifier present,
\* empty or absent, the form as the dialog sends it (entries left empty are
\* not sent), and forms that spoil one other entry.
AddLeadForms ==
    {With(AddLeadBase, "source", s) : s \in {"Website", "Social Media", "Referral"}}
    \cup {With(With(AddLeadBase, "source", "Other"), "otherSource", o) :
            o \in {Null, "", "Fair", "Other"}}
    \cup {With(With(AddLeadBase, "source", "Social Media"), "socialMediaSource", Null),
          With(With(AddLeadBase, "source", "Referral"), "referralSource", ""),
          With(With(AddLeadBase, "source", "Other"), "socialMediaSource", Null),
          With(With(With(AddLeadBase, "source", "Other"), "otherSource", ""), "city", Null),
          With(AddLeadBase, "name", "A"), With(AddLeadBase, "email", "asha"),
          With(AddLeadBase, "source", ""),
          With(AddLeadBase, "phones", <<[title |-> "Home", number |-> ""]>>),
          With(AddLeadBase, "phones", <<[title |-> "Mobile", number |-> "12345"]>>),
          With(AddLeadBase, "gender", "Unknown")}

---------------------------------------------------------------------------
(* Server actions (src/app/actions.ts) *)

\* addLeadAction(prevState, formData)
addLeadAction(f) ==
    LET d    == AddLeadRaw(f)
        errs == AddLeadErrors(d)
    IN  IF errs # {}
        THEN /\ last' = Errors("addLead", f, errs)
             /\ UNCHANGED <<leads, tasks, issued>>
        ELSE \E g \in Draws(leads) :
                LET cur    == getLeads(leads, g)
                    stored == addLead(cur, [d EXCEPT !.source = FinalSource(d)])
                IN  /\ leads' = stored
                    /\ issued' = issued \cup {stored[i].id : i \in 1..Len(stored)}
                    /\ last' = Message("addLead", f,
                                       "Lead \"" \o d.name \o "\" created successfully.")
                    /\ UNCHANGED tasks

\* rawData of updateLeadAction
UpdateLeadRaw(f) ==
    [id |-> f.id, name |-> f.name, email |-> f.email,
     assignedUserId |-> f.assignedUserId, phoneNumbers |-> ParsePhones(f.phones),
     source |-> f.source, courseInterest |-> OrUndefined(f.courseInterest),
     education |-> OrUndefined(f.education), college |-> OrUndefined(f.college),
     status |-> OrUndefined(f.status)]

\* updateLeadFormSchema.safeParse(rawData): the keys in error
UpdateLeadErrors(d) ==
    FieldErrors([id |-> StrRequired(d.id), name |-> StrMin(d.name, 2),
                 email |-> Email(d.email), assignedUserId |-> StrRequired(d.assignedUserId),
                 phoneNumbers |-> PhoneNumbers(d.phoneNumbers),
                 source |-> StrMin(d.source, 1),
                 courseInterest |-> StrOptional(d.courseInterest),
                 education |-> StrOptional(d.education),
                 college |-> StrOptional(d.college),
                 status |-> EnumOptional(d.status, AcademicStatuses)], {})

\* validatedFields.data of updateLeadAction: the parsed object carries every
\* key that rawData carries, the ones whose value is undefined included
UpdateLeadData(d) == d

\* updateLeadAction(prevState, formData)
updateLeadAction(f) ==
    LET d    == UpdateLeadRaw(f)
        errs == UpdateLeadErrors(d)
    IN  IF errs # {}
        THEN /\ last' = Errors("updateLead", f, errs)
             /\ UNCHANGED <<leads, tasks, issued>>
        ELSE \E g \in Draws(leads) :
                LET stored == updateLead(getLeads(leads, g), UpdateLeadData(d))
                IN  /\ leads' = stored
                    /\ issued' = issued \cup {stored[i].id : i \in 1..Len(stored)}
                    /\ last' = Message("updateLead", f,
                                       "Lead \"" \o d.name \o "\" updated successfully.")
                    /\ UNCHANGED tasks

TaskTypes == {"Follow-up", "Meeting", "Documentation"}
Priorities == {"High", "Medium", "Low"}

\* z.string().refine(val => !isNaN(Date.parse(val)))
DateString(v) ==
    IF v = Null \/ v = Undefined THEN "aborted"
    ELSE IF DateParse(v) = NaN THEN "dirty" ELSE "ok"

\* addTaskFormSchema.safeParse(...): the keys in error
AddTaskErrors(d) ==
    FieldErrors([leadId |-> StrRequired(d.leadId), type |-> EnumRequired(d.type, TaskTypes),
                 dueDate |-> DateString(d.dueDate),
                 priority |-> EnumRequired(d.priority, Priorities),
                 notes |-> StrMin(d.notes, 3),
                 assignedUserId |-> StrRequired(d.assignedUserId)], {})

\* addTaskAction(prevState, formData)
addTaskAction(f) ==
    LET errs == AddTaskErrors(f)
    IN  IF errs # {}
        THEN /\ last' = Error("addTask", f, "Invalid form data")
             /\ UNCHANGED <<leads, tasks, issued>>
        ELSE \E g \in Draws(leads) :
                LET cur == getLeads(leads, g)
                IN  /\ issued' = issued \cup {cur[i].id : i \in 1..Len(cur)}
                    /\ IF FindIndex(cur, f.leadId) = 0
                       THEN \* addTask throws, the action catches
                            /\ leads' = cur
                            /\ UNCHANGED tasks
                            /\ last' = Error("addTask", f, "Lead not found")
                       ELSE /\ leads' = addTask(cur, f.leadId, f)
                            /\ tasks' = Append(tasks, NewTask(f.leadId, f))
                            /\ last' = Message("addTask", f, "Task created successfully.")

ActivityTypes == {"Call", "Email", "SMS", "WhatsApp", "Walk in"}

\* addActivityFormSchema.safeParse(...): the keys in error
AddActivityErrors(d) ==
    FieldErrors([leadId |-> StrRequired(d.leadId),
                 type |-> EnumRequired(d.type, ActivityTypes),
                 outcome |-> StrMin(d.outcome, 3), notes |-> StrMin(d.notes, 3),
                 userId |-> StrRequired(d.userId),
                 courseInterest |-> StrOptional(d.courseInterest),
                 stage |-> EnumOptional(d.stage, Stages)], {})

\* leadUpdates of addActivityAction, with the id of the lead
LeadUpdates(d) ==
    [k \in {"id"} \cup (IF Falsy(d.courseInterest) THEN {} ELSE {"courseInterest"})
                  \cup (IF Falsy(d.stage) THEN {} ELSE {"stage"})
        |-> IF k = "id" THEN d.leadId ELSE d[k]]

\* addActivityAction(prevState, formData)
addActivityAction(f) ==
    LET errs == AddActivityErrors(f)
    IN  IF errs # {}
        THEN /\ last' = Error("addActivity", f, "Invalid form data")
             /\ UNCHANGED <<leads, tasks, issued>>
        ELSE \E g \in Draws(leads) :
                LET cur == getLeads(leads, g)
                IN  /\ issued' = issued \cup {cur[i].id : i \in 1..Len(cur)}
                    /\ UNCHANGED tasks
                    /\ IF FindIndex(cur, f.leadId) = 0
                       THEN \* addActivity throws, the action catches
                            /\ leads' = cur
                            /\ last' = Error("addActivity", f, "Lead not found")
                       ELSE LET logged == addActivity(cur, f.leadId, f)
                            IN  /\ leads' = IF DOMAIN LeadUpdates(f) # {"id"}
                                            THEN updateLead(logged, LeadUpdates(f))
                                            ELSE logged
                                /\ last' = Message("addActivity", f,
                                                   "Activity logged successfully.")

\* An entry of the FormData that is a File, not a string
FileEntry == "#file"

\* The distributionList entry of the FormData: absent, a text that is not
\* JSON, or the JSON text of a list (kept as the list it encodes)
NoEntry       == [text |-> "absent", value |-> <<>>]
MalformedJson == [text |-> "malformed", value |-> <<>>]
Json(list)    == [text |-> "json", value |-> list]

\* z.array(z.object({ leadId: z.string(), assignedUserId: z.string() })).optional()
DistributionList(v) ==
    IF ~v.defined THEN "ok"
    ELSE IF \A i \in 1..Len(v.items) :
                DOMAIN v.items[i] = {"leadId", "assignedUserId"}
         THEN "ok" ELSE "aborted"

\* z.array(z.string())
StringArray(v) == IF FileEntry \in Range(v) THEN "aborted" ELSE "ok"

\* a reading of the form that drops the distribution list
BulkUpdateRawWithoutList(f) ==
    [leadIds |-> f.leadIds, stage |-> OrUndefined(f.stage),
     assignedUserId |-> OrUndefined(f.assignedUserId),
     distributionList |-> UndefinedArr]

\* the object handed to bulkUpdateLeadsSchema.safeParse
BulkUpdateRaw(f) ==
    [leadIds |-> f.leadIds, stage |-> OrUndefined(f.stage),
     assignedUserId |-> OrUndefined(f.assignedUserId),
     distributionList |-> IF f.distributionList.text = "json"
                          THEN Arr(f.distributionList.value) ELSE UndefinedArr]

\* bulkUpdateLeadsSchema.safeParse(...): the keys in error
BulkUpdateErrors(d) ==
    FieldErrors([leadIds |-> StringArray(d.leadIds),
                 stage |-> EnumOptional(d.stage, Stages),
                 assignedUserId |-> StrOptional(d.assignedUserId),
                 distributionList |-> DistributionList(d.distributionList)], {})

\* users.find(u => u.id === id)?.name || 'N/A'
UserName(id) ==
    CASE id = "user-1" -> "Super Admin" [] id = "user-5" -> "Shivani Bisen"
      [] id = "user-6" -> "Pooja Verma" [] id = "user-11" -> "Shivani Pande"
      [] id = "user-12" -> "Pratiksha" [] OTHER -> "N/A"

\* the message of bulkUpdateLeadsAction in single-update mode
BulkUpdateMessage(d) ==
    IF ~Falsy(d.stage)
    THEN ToStr(Len(d.leadIds)) \o " lead(s) moved to " \o d.stage \o "."
    ELSE IF ~Falsy(d.assignedUserId)
    THEN ToStr(Len(d.leadIds)) \o " lead(s) assigned to " \o UserName(d.assignedUserId) \o "."
    ELSE "No updates performed."

\* bulkUpdateLeadsAction(prevState, formData)
bulkUpdateLeadsAction(f) ==
    IF f.distributionList.text = "malformed"
    THEN /\ last' = Error("bulkUpdate", f, "Invalid distribution data.")
         /\ UNCHANGED <<leads, tasks, issued>>
    ELSE LET d == BulkUpdateRaw(f)
         IN  IF BulkUpdateErrors(d) # {}
             THEN /\ last' = Error("bulkUpdate", f, "Invalid data for bulk update.")
                  /\ UNCHANGED <<leads, tasks, issued>>
             ELSE /\ UNCHANGED <<tasks, issued>>
                  /\ IF d.distributionList.defined /\ Len(d.distributionList.items) > 0
                     THEN /\ leads' = bulkUpdateLeads(leads,
                                         [i \in 1..Len(d.distributionList.items) |->
                                             d.distributionList.items[i].leadId],
                                         [stage |-> Undefined, assignedUserId |-> Undefined,
                                          assignedUserIds |-> d.distributionList])
                          /\ last' = Message("bulkUpdate", f,
                                        ToStr(Len(d.distributionList.items))
                                        \o " leads have been distributed successfully.")
                     ELSE /\ leads' = bulkUpdateLeads(leads, d.leadIds,
                                         [stage |-> d.stage,
                                          assignedUserId |-> d.assignedUserId,
                                          assignedUserIds |-> UndefinedArr])
                          /\ last' = Message("bulkUpdate", f, BulkUpdateMessage(d))

\* a bulk delete that also drops the tasks of the deleted leads
bulkDeleteLeadsActionCascading(f) ==
    IF StringArray(f.leadIds) # "ok"
    THEN /\ last' = Error("bulkDelete", f, "Invalid data for bulk delete.")
         /\ UNCHANGED <<leads, tasks, issued>>
    ELSE /\ leads' = bulkDeleteLeads(leads, f.leadIds)
         /\ tasks' = SelectSeqR(tasks, [t \in Range(tasks) |-> t.leadId \notin Range(f.leadIds)])
         /\ last' = Message("bulkDelete", f,
                            ToStr(Len(f.leadIds)) \o " leads deleted successfully.")
         /\ UNCHANGED issued

\* bulkDeleteLeadsAction(prevState, formData)
bulkDeleteLeadsAction(f) ==
    IF StringArray(f.leadIds) # "ok"
    THEN /\ last' = Error("bulkDelete", f, "Invalid data for bulk delete.")
         /\ UNCHANGED <<leads, tasks, issued>>
    ELSE /\ leads' = bulkDeleteLeads(leads, f.leadIds)
         /\ last' = Message("bulkDelete", f,
                            ToStr(Len(f.leadIds)) \o " leads deleted successfully.")
         /\ UNCHANGED <<tasks, issued>>

---------------------------------------------------------------------------
(* The requests the exploration submits *)

\* ids of the first leads of the store and one that no lead carries
SomeIds == {"001", "002", "404"}

UpdateLeadBase ==
    [id |-> "001", name |-> "Asha K", email |-> "ravi@example.com",
     assignedUserId |-> "user-11",
     phones |-> <<[title |-> "Work", number |-> "+919876510002"]>>,
     source |-> "Online", courseInterest |-> "Cloud", education |-> "MBA",
     college |-> "VIT Vellore", status |-> "Passed"]

\* the profile form with every entry filled, with the optional entries left
\* empty (the dialog does not send an empty entry), and spoilt forms
UpdateLeadForms ==
    {With(UpdateLeadBase, "id", i) : i \in SomeIds}
    \cup {[UpdateLeadBase EXCEPT !.id = i, !.phones = <<>>, !.courseInterest = Null,
                                 !.education = Null, !.college = Null, !.status = Null] :
            i \in SomeIds}
    \cup {With(UpdateLeadBase, "assignedUserId", Null), With(UpdateLeadBase, "name", "A"),
          With(UpdateLeadBase, "status", "Dropout")}

AddTaskBase ==
    [leadId |-> "001", type |-> "Follow-up", dueDate |-> ISO(Epoch + 2),
     priority |-> "Medium", notes |-> "Call back", assignedUserId |-> "user-5"]

AddTaskForms ==
    {With(AddTaskBase, "leadId", i) : i \in SomeIds}
    \cup {With(AddTaskBase, "notes", "ok"), With(AddTaskBase, "dueDate", "soon"),
          With(AddTaskBase, "priority", Null)}

AddActivityBase ==
    [leadId |-> "001", type |-> "Call", outcome |-> "Demo scheduled",
     notes |-> "Asked for fees", userId |-> "user-1", courseInterest |-> "Cloud",
     stage |-> "Qualified"]

AddActivityForms ==
    {[AddActivityBase EXCEPT !.leadId = i, !.courseInterest = c] :
        i \in SomeIds, c \in {"Cloud", ""}}
    \cup {With(AddActivityBase, "stage", Null), With(AddActivityBase, "stage", "Won"),
          With(AddActivityBase, "outcome", "ok"),
          With(AddActivityBase, "courseInterest", Null)}

BulkUpdateBase ==
    [leadIds |-> <<"001", "002">>, stage |-> Null, assignedUserId |-> Null,
     distributionList |-> NoEntry]

BulkUpdateForms ==
    {[BulkUpdateBase EXCEPT !.leadIds = ids, !.stage = "Qualified"] :
        ids \in {<<>>, <<"001">>, <<"001", "002">>, <<"002", "404">>}}
    \cup {With(BulkUpdateBase, "assignedUserId", "user-12"),
          [BulkUpdateBase EXCEPT !.stage = "Dropped", !.assignedUserId = "user-12"],
          BulkUpdateBase,
          With(BulkUpdateBase, "stage", "Won"),
          With(BulkUpdateBase, "leadIds", <<"001", FileEntry>>),
          With(BulkUpdateBase, "distributionList", MalformedJson),
          With(BulkUpdateBase, "distributionList", Json(<<[leadId |-> "001"]>>)),
          [BulkUpdateBase EXCEPT !.stage = "Enrolled", !.distributionList = Json(<<>>)],
          [BulkUpdateBase EXCEPT !.leadIds = <<>>,
              !.distributionList = Json(<<[leadId |-> "001", assignedUserId |-> "user-5"],
                                          [leadId |-> "404", assignedUserId |-> "user-6"]>>)],
          [BulkUpdateBase EXCEPT !.leadIds = <<"002">>, !.stage = "Enrolled",
              !.distributionList = Json(<<[leadId |-> "001", assignedUserId |-> "user-6"]>>)]}

\* selections of the contacts table: one lead, two leads, every lead shown,
\* none, and a stale or foreign entry
BulkDeleteForms ==
    {[leadIds |-> ids] :
        ids \in {<<>>, <<"001">>, <<"002">>, <<"404">>, <<"001", FileEntry>>,
                 [i \in 1..Len(leads) |-> leads[i].id]}}

---------------------------------------------------------------------------
(* Steps *)

AddLead ==
    /\ nOps < MaxOps
    /\ \E f \in AddLeadForms : addLeadAction(f)
    /\ nOps' = nOps + 1
    /\ UNCHANGED <<now, uiVars>>

UpdateLead ==
    /\ nOps < MaxOps
    /\ \E f \in UpdateLeadForms : updateLeadAction(f)
    /\ nOps' = nOps + 1
    /\ UNCHANGED <<now, uiVars>>

AddTask ==
    /\ nOps < MaxOps
    /\ \E f \in AddTaskForms : addTaskAction(f)
    /\ nOps' = nOps + 1
    /\ UNCHANGED <<now, uiVars>>

AddActivity ==
    /\ nOps < MaxOps
    /\ \E f \in AddActivityForms : addActivityAction(f)
    /\ nOps' = nOps + 1
    /\ UNCHANGED <<now, uiVars>>

BulkUpdate ==
    /\ nOps < MaxOps
    /\ \E f \in BulkUpdateForms : bulkUpdateLeadsAction(f)
    /\ nOps' = nOps + 1
    /\ UNCHANGED <<now, uiVars>>

BulkDelete ==
    /\ nOps < MaxOps
    /\ \E f \in BulkDeleteForms : bulkDeleteLeadsAction(f)
    /\ nOps' = nOps + 1
    /\ UNCHANGED <<now, uiVars>>

\* A page render: const allLeads = getLeads()
Read ==
    /\ nOps < MaxOps
    /\ \E g \in Draws(leads) :
          /\ leads' = getLeads(leads, g)
          /\ issued' = issued \cup {g[i].id : i \in 1..Len(g)}
    /\ last' = [op |-> "read"]
    /\ nOps' = nOps + 1
    /\ UNCHANGED <<tasks, now, uiVars>>

Next ==
    \/ AddLead
    \/ UpdateLead
    \/ AddTask
    \/ AddActivity
    \/ BulkUpdate
    \/ BulkDelete
    \/ Read


Spec == Init /\ [][Next]_vars

---------------------------------------------------------------------------
(* The distribution dialog (src/components/crm/distribute-leads-dialog.tsx) *)

\* const newLeads = leads.filter(lead => lead.stage === 'New')
NewLeads(ls) == SelectSeqR(ls, [l \in Range(ls) |-> l.stage = "New"])

\* a round robin that starts at the second counselor
RoundRobinShifted(newLeads, picked) ==
    [index \in 1..Len(newLeads) |->
        [leadId |-> newLeads[index].id,
         assignedUserId |-> picked[(index % Len(picked)) + 1]]]

\* newLeads.map((lead, index) => ({ leadId: lead.id,
\*     assignedUserId: selectedCounselors[index % selectedCounselors.length] }))
RoundRobin(newLeads, picked) ==
    [index \in 1..Len(newLeads) |->
        [leadId |-> newLeads[index].id,
         assignedUserId |-> picked[((index - 1) % Len(picked)) + 1]]]

\* handleCounselorSelection(counselorId, isChecked); the box of a counselor is
\* shown ticked exactly when the counselor is in the list
ToggleCounselor ==
    /\ \E c \in Range(counselors) :
          IF c \in Range(selectedCounselors)
          THEN selectedCounselors' =
                  SelectSeqR(selectedCounselors, [x \in Range(selectedCounselors) |-> x # c])
          ELSE /\ Len(selectedCounselors) < MaxPicked
               /\ selectedCounselors' = Append(selectedCounselors, c)
    /\ UNCHANGED <<leads, tasks, now, issued, nOps, last, shown, column, dlg, inflight>>

\* handleDistribute, the server action it submits, and the effect that
\* clears the selection when the action reports success
Distribute ==
    /\ nOps < MaxOps
    /\ Len(selectedCounselors) # 0
    /\ Len(NewLeads(shown)) # 0
    /\ bulkUpdateLeadsAction(
          [leadIds |-> <<>>, stage |-> Null, assignedUserId |-> Null,
           distributionList |-> Json(RoundRobin(NewLeads(shown), selectedCounselors))])
    /\ selectedCounselors' = IF last'.kind = "message" THEN <<>> ELSE selectedCounselors
    /\ nOps' = nOps + 1
    /\ UNCHANGED <<now, shown, column, dlg, inflight>>

\* The CRM page mounts in the browser: useEffect(() => setLeads(getLeads()), [])
\* for the Super Admin, who sees every lead.  The page is a client component,
\* so getLeads() runs on the browser's own copy of data.ts and generates
\* there; later mounts get that same list again.
Mount ==
    /\ shown = <<>>
    /\ shown' \in generateLeads(ShownCount)
    /\ UNCHANGED <<leads, tasks, now, issued, nOps, last, selectedCounselors, column, dlg, inflight>>

DialogNext ==
    \/ Mount
    \/ ToggleCounselor
    \/ Distribute

DialogSpec == Init /\ [][DialogNext]_vars

---------------------------------------------------------------------------
(* The Kanban board (src/components/leads/kanban-board.tsx) *)

\* a sort that returns what it is given
SortAsGiven(s, cmp) == s

\* Array.prototype.sort(compare) for a consistent comparator: the sort is
\* stable, so an element goes behind the elements that compare lower and
\* behind the equal ones that stood before it.  cmp[i][j] is
\* compare(s[i], s[j]).
Sort(s, cmp) ==
    LET pos == [i \in 1..Len(s) |->
                    1 + Cardinality({j \in 1..Len(s) :
                            \/ cmp[j][i] < 0
                            \/ (cmp[j][i] = 0 /\ j < i)})]
    IN  [p \in 1..Len(s) |-> s[CHOOSE i \in 1..Len(s) : pos[i] = p]]

\* new Date(text).getTime()
GetTime(text) == DateParse(text)

\* The pending follow-ups of a lead, earliest due first
PendingFollowUps(lead) ==
    LET pending == SelectSeqR(lead.tasks,
                      [t \in Range(lead.tasks) |->
                          t.type = "Follow-up" /\ t.status = "Pending"])
    IN  Sort(pending, [a \in 1..Len(pending) |-> [b \in 1..Len(pending) |->
                          GetTime(pending[a].dueDate) - GetTime(pending[b].dueDate)]])

\* getNextFollowUp(lead): the first of them in a list, the empty list for
\* undefined
getNextFollowUp(lead) ==
    LET sorted == PendingFollowUps(lead)
    IN  IF sorted = <<>> THEN <<>> ELSE <<sorted[1]>>

priorityOrder == [High |-> 0, Medium |-> 1, Low |-> 2]

\* a comparator that looks at the due date before the priority
CompareByDueDate(a, b, nextFollowUpA, nextFollowUpB) ==
        IF nextFollowUpA # <<>> /\ nextFollowUpB # <<>>
        THEN IF nextFollowUpA[1].dueDate # nextFollowUpB[1].dueDate
             THEN GetTime(nextFollowUpA[1].dueDate) - GetTime(nextFollowUpB[1].dueDate)
             ELSE priorityOrder[nextFollowUpA[1].priority]
                     - priorityOrder[nextFollowUpB[1].priority]
        ELSE IF nextFollowUpA # <<>> THEN 0 - 1
        ELSE IF nextFollowUpB # <<>> THEN 1
        ELSE 0

\* the comparator of sortLeadsByPriority; nextFollowUpA and nextFollowUpB
\* are getNextFollowUp(a) and getNextFollowUp(b)
CompareByPriority(a, b, nextFollowUpA, nextFollowUpB) ==
    IF nextFollowUpA # <<>> /\ nextFollowUpB # <<>>
    THEN LET priorityA == priorityOrder[nextFollowUpA[1].priority]
             priorityB == priorityOrder[nextFollowUpB[1].priority]
         IN  IF priorityA # priorityB THEN priorityA - priorityB
             ELSE GetTime(nextFollowUpA[1].dueDate) - GetTime(nextFollowUpB[1].dueDate)
    ELSE IF nextFollowUpA # <<>> THEN 0 - 1
    ELSE IF nextFollowUpB # <<>> THEN 1
    ELSE LET lastActivityA == GetTime(IF a.activities # <<>>
                                      THEN a.activities[1].timestamp ELSE a.createdAt)
             lastActivityB == GetTime(IF b.activities # <<>>
                                      THEN b.activities[1].timestamp ELSE b.createdAt)
         IN  lastActivityB - lastActivityA

\* a priority sort that leaves the cards as they come
sortLeadsAsGiven(ls) == ls

\* sortLeadsByPriority(leads)
sortLeadsByPriority(ls) ==
    LET next == [i \in 1..Len(ls) |-> getNextFollowUp(ls[i])]
    IN  Sort(ls, [a \in 1..Len(ls) |-> [b \in 1..Len(ls) |->
                    CompareByPriority(ls[a], ls[b], next[a], next[b])]])

\* leadsByStage[stage] of KanbanBoard
LeadsByStage(ls, stage) == SelectSeqR(ls, [l \in Range(ls) |-> l.stage = stage])

\* displayedLeads of KanbanColumn
DisplayedLeads(ls, isSorted) ==
    LET sortedByDate ==
            Sort(ls, [a \in 1..Len(ls) |-> [b \in 1..Len(ls) |->
                        GetTime(ls[b].createdAt) - GetTime(ls[a].createdAt)]])
    IN  IF isSorted THEN sortLeadsByPriority(sortedByDate) ELSE sortedByDate

\* Follow-ups planned for the first two leads: one of Low priority due now,
\* or one of High priority due a tick later
KanbanTaskForms ==
    {[leadId |-> i, type |-> "Follow-up", dueDate |-> ISO(Epoch + k.due),
      priority |-> k.priority, notes |-> "Call back", assignedUserId |-> "user-5"] :
        i \in {"001", "002"},
        k \in {[due |-> 0, priority |-> "Low"], [due |-> 1, priority |-> "High"]}}

\* A follow-up is planned for a lead from its card
PlanTask ==
    /\ nOps < MaxTasks
    /\ \E f \in KanbanTaskForms : addTaskAction(f)
    /\ nOps' = nOps + 1
    /\ UNCHANGED <<now, uiVars>>

\* The column of a stage that has cards is rendered, with the priority
\* toggle on or off
ShowColumn ==
    /\ \E stage \in {leads[i].stage : i \in 1..Len(leads)}, isSorted \in BOOLEAN :
          column' = [isSorted |-> isSorted,
                     displayedLeads |-> DisplayedLeads(LeadsByStage(leads, stage), isSorted)]
    /\ UNCHANGED <<leads, tasks, now, issued, nOps, last, shown, selectedCounselors, dlg, inflight>>

KanbanNext ==
    \/ PlanTask
    \/ ShowColumn

KanbanSpec == Init /\ [][KanbanNext]_vars

---------------------------------------------------------------------------
(* The delete dialogs of the contacts table: BulkActionsToolbar for the      *)
(* selected rows ("bulk") and ContactsTable for one row ("single").  A      *)
(* dialog d has its open flag, the text of its confirmation box, the ids    *)
(* it is about (the selected rows, or leadToDelete) and the requests it     *)
(* has submitted that the server has not answered yet.                      *)

\* isPending of useTransition(): the transition that wraps the server action
\* is under way
isPending(d) == d.sent # <<>>

\* a button that looks at the transition only
DeleteDisabledWhilePending(d) == isPending(d)

\* disabled={isPending || deleteConfirmation !== "DELETE"}
DeleteDisabled(d) == isPending(d) \/ d.text # "DELETE"

\* useEffect(() => { if (!isDeleteDialogOpen) setDeleteConfirmation("") },
\*           [isDeleteDialogOpen])
ResetConfirmation(d) == IF ~d.open THEN [d EXCEPT !.text = ""] ELSE d

\* What a user can have in the confirmation box
Typed == {"DELETE", "delete", "DELETE "}

\* The rows a user ticks: one row or every row
Selections(ls) ==
    ({<<ls[i].id>> : i \in 1..Len(ls)} \cup {[i \in 1..Len(ls) |-> ls[i].id]}) \ {<<>>}

NoDialogOpen == \A k \in DialogKinds : ~dlg[k].open

\* Rows are ticked: the toolbar is rendered for a selection that is not empty
SelectRows ==
    /\ NoDialogOpen
    /\ \E ids \in Selections(leads) :
          dlg' = [dlg EXCEPT !["bulk"] = [ClosedDialog EXCEPT !.targets = ids,
                                                            !.sent = dlg["bulk"].sent]]
    /\ UNCHANGED <<leads, tasks, now, issued, nOps, last, shown, selectedCounselors, column, inflight>>

\* The toolbar's Delete button: onClick={() => setDeleteDialogOpen(true)}
OpenDeleteDialog ==
    /\ NoDialogOpen
    /\ dlg["bulk"].targets # <<>>
    /\ dlg' = [dlg EXCEPT !["bulk"].open = TRUE]
    /\ UNCHANGED <<leads, tasks, now, issued, nOps, last, shown, selectedCounselors, column, inflight>>

\* handleDeleteRequest(lead), from the menu of a row
handleDeleteRequest ==
    /\ NoDialogOpen
    /\ \E i \in 1..Len(leads) :
          dlg' = [dlg EXCEPT !["single"].targets = <<leads[i].id>>,
                             !["single"].open = TRUE]
    /\ UNCHANGED <<leads, tasks, now, issued, nOps, last, shown, selectedCounselors, column, inflight>>

\* onChange={(e) => setDeleteConfirmation(e.target.value)}
TypeConfirmation ==
    /\ \E k \in DialogKinds, text \in Typed :
          /\ dlg[k].open
          /\ dlg' = [dlg EXCEPT ![k].text = text]
    /\ UNCHANGED <<leads, tasks, now, issued, nOps, last, shown, selectedCounselors, column, inflight>>

\* AlertDialogCancel, Escape: onOpenChange(false), and the effect that
\* follows the render
CancelDelete ==
    /\ \E k \in DialogKinds :
          /\ dlg[k].open
          /\ dlg' = [dlg EXCEPT ![k] = ResetConfirmation([dlg[k] EXCEPT !.open = FALSE])]
    /\ UNCHANGED <<leads, tasks, now, issued, nOps, last, shown, selectedCounselors, column, inflight>>

\* A click on the enabled AlertDialogAction: handleDelete / handleDeleteSingle
\* builds the form data from the ids and starts the transition; the action
\* button of an alert dialog closes the dialog
handleDelete ==
    /\ \E k \in DialogKinds :
          /\ dlg[k].open
          /\ ~DeleteDisabled(dlg[k])
          /\ dlg[k].targets # <<>>
          /\ dlg' = [dlg EXCEPT ![k] =
                        ResetConfirmation([dlg[k] EXCEPT
                            !.sent = Append(dlg[k].sent, dlg[k].targets),
                            !.open = FALSE])]
    /\ UNCHANGED <<leads, tasks, now, issued, nOps, last, shown, selectedCounselors, column, inflight>>

\* The server runs bulkDeleteLeadsAction for a submitted request and the
\* transition ends; on a message the effect clears the selection
\* (onClearSelection, setLeadToDelete(null)) and closes the dialog
DeleteSettles ==
    /\ nOps < MaxOps
    /\ \E k \in DialogKinds :
          /\ dlg[k].sent # <<>>
          /\ bulkDeleteLeadsAction([leadIds |-> Head(dlg[k].sent)])
          /\ dlg' = [dlg EXCEPT ![k] =
                        IF last'.kind = "message"
                        THEN [ClosedDialog EXCEPT !.sent = Tail(dlg[k].sent)]
                        ELSE [dlg[k] EXCEPT !.sent = Tail(dlg[k].sent)]]
    /\ nOps' = nOps + 1
    /\ UNCHANGED <<now, shown, selectedCounselors, column, inflight>>

DeleteNext ==
    \/ SelectRows
    \/ OpenDeleteDialog
    \/ handleDeleteRequest
    \/ TypeConfirmation
    \/ CancelDelete
    \/ handleDelete
    \/ DeleteSettles

DeleteSpec == Init /\ [][DeleteNext]_vars

---------------------------------------------------------------------------
(* Two bulk updates issued together.  bulkUpdateLeadsAction has no await   *)
(* and bulkUpdateLeads is synchronous, so the server runs each request to   *)
(* its answer before it takes up the other; the order is the server's.      *)

\* The forms the contacts toolbar and the distribution dialog build:
\* handleStageChange, handleAssignCounselor and handleDistribute
ConcurrentForms ==
    {[BulkUpdateBase EXCEPT !.leadIds = ids, !.stage = stage] :
        ids \in {<<"001">>, <<"001", "002">>}, stage \in {"Qualified", "Dropped"}}
    \cup {[BulkUpdateBase EXCEPT !.leadIds = ids, !.assignedUserId = "user-12"] :
        ids \in {<<"002">>, <<"001", "002">>}}
    \cup {[BulkUpdateBase EXCEPT !.leadIds = <<>>, !.distributionList = Json(list)] :
        list \in {<<[leadId |-> "001", assignedUserId |-> "user-6"],
                     [leadId |-> "002", assignedUserId |-> "user-11"]>>,
                   <<[leadId |-> "002", assignedUserId |-> "user-6"]>>}}

\* how many requests of inflight the server has answered
Answered == Cardinality({i \in 1..Len(inflight) : inflight[i].at # 0})

\* Two requests leave the browser before either is answered
IssueTogether ==
    /\ nOps + 2 <= MaxOps
    /\ Answered = Len(inflight)
    /\ \E f, g \in ConcurrentForms :
          inflight' = <<[form |-> f, at |-> 0, answer |-> NoRequest],
                        [form |-> g, at |-> 0, answer |-> NoRequest]>>
    /\ UNCHANGED <<leads, tasks, now, issued, nOps, last, shown, selectedCounselors,
                   column, dlg>>

\* The server takes up one of the waiting requests and runs
\* bulkUpdateLeadsAction to its answer
ServeTogether ==
    /\ \E i \in 1..Len(inflight) :
          /\ inflight[i].at = 0
          /\ bulkUpdateLeadsAction(inflight[i].form)
          /\ inflight' = [inflight EXCEPT ![i].at = Answered + 1, ![i].answer = last']
    /\ nOps' = nOps + 1
    /\ UNCHANGED <<now, shown, selectedCounselors, column, dlg>>

ConcurrentNext ==
    \/ IssueTogether
    \/ ServeTogether

ConcurrentSpec == Init /\ [][ConcurrentNext]_vars

---------------------------------------------------------------------------
(* Requests served while the clock goes on *)

\* Time passes between two requests; new Date() never reads less than before
Tick ==
    /\ now < Epoch + MaxTicks
    /\ now' = now + 1
    /\ UNCHANGED <<leads, tasks, issued, nOps, last, uiVars>>

ClockNext ==
    \/ Tick
    \/ AddLead
    \/ AddActivity

ClockSpec == Init /\ [][ClockNext]_vars

---------------------------------------------------------------------------
(* The board of a counselor who logs calls as the day goes on *)

\* A call is logged for one of the first two leads from its card; the form
\* moves the lead to Qualified
BoardActivityForms ==
    {[AddActivityBase EXCEPT !.leadId = i] : i \in {"001", "002"}}

LogActivity ==
    /\ nOps < MaxOps
    /\ \E f \in BoardActivityForms : addActivityAction(f)
    /\ nOps' = nOps + 1
    /\ UNCHANGED <<now, uiVars>>

BoardNext ==
    \/ Tick
    \/ LogActivity
    \/ ShowColumn

BoardSpec == Init /\ [][BoardNext]_vars

---------------------------------------------------------------------------
(* Cards of the New column: a lead is created from the dialog and           *)
(* follow-ups are planned for the first seeded lead and for the created one  *)

CardTaskForms ==
    {[leadId |-> i, type |-> "Follow-up", dueDate |-> ISO(Epoch + 1),
      priority |-> p, notes |-> "Call back", assignedUserId |-> "user-5"] :
        i \in {"001", LeadId(SeedCount + 1)}, p \in {"Low", "High"}}

NewCard ==
    /\ nOps < MaxTasks
    /\ addLeadAction(AddLeadBase)
    /\ nOps' = nOps + 1
    /\ UNCHANGED <<now, uiVars>>

PlanCard ==
    /\ nOps < MaxTasks
    /\ \E f \in CardTaskForms : addTaskAction(f)
    /\ nOps' = nOps + 1
    /\ UNCHANGED <<now, uiVars>>

CardNext ==
    \/ NewCard
    \/ PlanCard

CardSpec == Init /\ [][CardNext]_vars

---------------------------------------------------------------------------
(* The dashboards *)

\* a predicate that looks at the tasks only
MissedFollowUpByTaskOnly(lead) ==
    \E i \in 1..Len(lead.tasks) :
        /\ lead.tasks[i].type = "Follow-up"
        /\ lead.tasks[i].status = "Pending"
        /\ IsToday(lead.tasks[i].dueDate)

\* The predicate of allLeads.find(lead => ...) in the dashboards' effect:
\* hasTodaysFollowUp && !hasBeenContactedToday
MissedFollowUp(lead) ==
    LET hasTodaysFollowUp ==
            \E i \in 1..Len(lead.tasks) :
                /\ lead.tasks[i].type = "Follow-up"
                /\ lead.tasks[i].status = "Pending"
                /\ IsToday(lead.tasks[i].dueDate)
        hasBeenContactedToday ==
            \E i \in 1..Len(lead.activities) : IsToday(lead.activities[i].timestamp)
    IN  IF ~hasTodaysFollowUp THEN FALSE ELSE ~hasBeenContactedToday

---------------------------------------------------------------------------
(* Properties *)

\* the step serves a request of operation op
Served(op) == nOps' = nOps + 1 /\ last'.op = op

\* the step serves a request of operation op and reports success
Succeeded(op) == Served(op) /\ last'.kind = "message"

Ids(ls) == {ls[i].id : i \in 1..Len(ls)}

\* C1: the id given to a newly created lead has never been issued before to
\* any lead, deleted leads included.
C1_NewIdNeverIssued ==
    [][Succeeded("addLead") => leads'[1].id \notin issued]_vars

\* C2: in every reachable state no two leads of the collection have the same id.
C2_UniqueIds ==
    \A i, j \in 1..Len(leads) : i # j => leads[i].id # leads[j].id

\* C3: a bulk delete keeps every lead whose id is not in the set, unchanged,
\* and a read of the collection that follows it finds no lead with a deleted
\* id and still finds every lead that was kept.
C3_DeletedStayGone ==
    [][/\ Succeeded("bulkDelete") =>
            \A l \in Range(leads) :
                l.id \notin Range(last'.req.leadIds) => l \in Range(leads')
       /\ (last.op = "bulkDelete" /\ last.kind = "message" /\ Served("read")) =>
            /\ \A l \in Range(leads') : l.id \notin Range(last.req.leadIds)
            /\ \A l \in Range(leads) : l \in Range(leads')]_vars

\* C4: after a successful update-lead of a lead of the store, the lead has
\* the assignee of the request, and every field the request did not supply
\* (course interest, education, college, academic status, phone numbers) and
\* its stage, activities and tasks have their value of before.
C4_UpdateKeepsUnsupplied ==
    [][(Succeeded("updateLead") /\ FindIndex(leads, last'.req.id) # 0) =>
          LET r      == last'.req
              before == leads[FindIndex(leads, r.id)]
              after  == leads'[FindIndex(leads, r.id)]
          IN  /\ after.assignedUserId = r.assignedUserId
              /\ r.courseInterest = Null => after.courseInterest = before.courseInterest
              /\ r.education = Null => after.education = before.education
              /\ r.college = Null => after.college = before.college
              /\ r.status = Null => after.status = before.status
              /\ r.phones = <<>> => after.phoneNumbers = before.phoneNumbers
              /\ after.stage = before.stage
              /\ after.activities = before.activities
              /\ after.tasks = before.tasks]_vars

\* the number of pairs of the list that name counselor c
Received(list, c) == Cardinality({i \in 1..Len(list) : list[i].assignedUserId = c})

\* C5: the distribution list built from the n leads in stage New and the k
\* selected counselors pairs lead i with counselor i mod k (counting from 0);
\* it has n pairs, and counselor p (in selection order, counting from 1)
\* receives floor(n/k) leads, plus one exactly when p <= n mod k.
C5_RoundRobinCounts ==
    [][Served("bulkUpdate") =>
          LET list   == last'.req.distributionList.value
              fresh  == NewLeads(shown)
              n      == Len(fresh)
              k      == Len(selectedCounselors)
          IN  /\ Len(list) = n
              /\ \A i \in 1..n :
                    /\ list[i].leadId = fresh[i].id
                    /\ list[i].assignedUserId = selectedCounselors[((i - 1) % k) + 1]
              /\ \A p \in 1..k :
                    Received(list, selectedCounselors[p]) =
                        (n \div k) + (IF p <= n % k THEN 1 ELSE 0)]_vars

\* three leads went to two counselors: two to the first, one to the second
C5_Witness ==
    /\ last.op = "bulkUpdate"
    /\ last.kind = "message"
    /\ Len(last.req.distributionList.value) = 3
    /\ last.req.distributionList.value[1].assignedUserId
          = last.req.distributionList.value[3].assignedUserId
    /\ last.req.distributionList.value[1].assignedUserId
          # last.req.distributionList.value[2].assignedUserId

\* C6: every successful create-lead adds exactly one lead to the store, and
\* that lead has stage New, the fallback assignee, exactly one activity (type
\* System, outcome "Lead Created") and no task, document or contact.
C6_CreateAddsOneNewLead ==
    [][Succeeded("addLead") =>
          /\ Len(leads') = Len(leads) + 1
          /\ leads'[1].stage = "New"
          /\ leads'[1].assignedUserId = "user-1"
          /\ Len(leads'[1].activities) = 1
          /\ leads'[1].activities[1].type = "System"
          /\ leads'[1].activities[1].outcome = "Lead Created"
          /\ leads'[1].tasks = <<>>
          /\ leads'[1].documents = <<>>
          /\ leads'[1].contacts = <<>>]_vars

\* a create-lead form that is in order apart from its source and qualifiers:
\* valid name, email and phones, each optional entry absent or admissible
OtherwiseInOrder(r) ==
    /\ r.name # Null /\ Len(r.name) >= 2
    /\ r.email \in WellFormedEmails
    /\ \A i \in 1..Len(r.phones) :
          r.phones[i].number = "" \/ (r.phones[i].title # "" /\
                                      r.phones[i].number \in PhoneRegexMatches)
    /\ r.status \in AcademicStatuses \cup {Null}
    /\ r.gender \in Genders \cup {Null}

\* C7: a create-lead request with source "Other" and no otherSource value
\* returns a validation error on field otherSource and adds no lead; with
\* otherSource supplied and the rest of the form in order it succeeds.
C7_OtherNeedsSpecify ==
    [][(Served("addLead") /\ last'.req.source = "Other") =>
          /\ last'.req.otherSource \in {Null, ""} =>
                /\ last'.kind = "errors"
                /\ "otherSource" \in last'.fields
                /\ leads' = leads
          /\ (last'.req.otherSource \notin {Null, ""} /\ OtherwiseInOrder(last'.req)) =>
                last'.kind = "message"]_vars

Rejected(op, r) ==
    CASE op = "addLead" ->
            \/ Len(r.name) < 2 \/ r.email \notin WellFormedEmails \/ r.source \in {"", Null}
            \/ r.gender \notin Genders \/ r.city = Null
            \/ r.socialMediaSource = Null \/ r.otherSource = Null
            \/ \E i \in 1..Len(r.phones) : r.phones[i].number = "12345"
            \/ (r.source = "Other" /\ r.otherSource = "")
            \/ (r.source = "Referral" /\ r.referralSource = "")
      [] op = "updateLead" ->
            r.assignedUserId = Null \/ Len(r.name) < 2 \/ r.status = "Dropout"
      [] op = "addTask" ->
            Len(r.notes) < 3 \/ r.dueDate = "soon" \/ r.priority \notin Priorities
      [] op = "addActivity" ->
            r.stage \notin Stages \/ Len(r.outcome) < 3 \/ r.courseInterest = Null
      [] op = "bulkUpdate" ->
            \/ r.stage \notin Stages \cup {Null} \/ FileEntry \in Range(r.leadIds)
            \/ r.distributionList.text = "malformed"
            \/ \E i \in 1..Len(r.distributionList.value) :
                  "assignedUserId" \notin DOMAIN r.distributionList.value[i]
      [] op = "bulkDelete" -> FileEntry \in Range(r.leadIds)
      [] OTHER -> FALSE

MutationOps == {"addLead", "updateLead", "addTask", "addActivity", "bulkUpdate", "bulkDelete"}

\* C9: for each of the six mutation operations, a request that fails schema
\* validation returns an error result and leaves the lead collection and the
\* global task list exactly as they were.
C9_RejectedChangesNothing ==
    [][(nOps' = nOps + 1 /\ last'.op \in MutationOps /\ Rejected(last'.op, last'.req)) =>
          /\ last'.kind \in {"errors", "error"}
          /\ leads' = leads
          /\ tasks' = tasks]_vars

\* a create-lead with a one-letter name was refused after a request that
\* had changed the store
C9_Witness ==
    /\ nOps = 2
    /\ last.op = "addLead"
    /\ last.kind = "errors"
    /\ "name" \in last.fields
    /\ Len(leads) # SeedCount

\* C10: an add-task or add-activity request that is valid but names a lead id
\* matching no lead returns the error message "Lead not found" and leaves
\* every lead and the global task list unchanged.
C10_UnknownLeadChangesNothing ==
    [][(nOps' = nOps + 1 /\ last'.op \in {"addTask", "addActivity"}
          /\ ~Rejected(last'.op, last'.req)
          /\ last'.req.leadId \notin Ids(leads)) =>
          /\ last'.kind = "error"
          /\ last'.text = "Lead not found"
          /\ leads' = leads
          /\ tasks' = tasks]_vars

\* C11: an update-lead request that passes validation and names an id that
\* no lead of the store carries returns a failure result, not the success
\* confirmation, and leaves the store unchanged.
C11_UpdateUnknownFails ==
    [][(Served("updateLead") /\ ~Rejected("updateLead", last'.req)
          /\ last'.req.id \notin Ids(leads)) =>
          /\ last'.kind # "message"
          /\ leads' = leads
          /\ tasks' = tasks]_vars

\* C12: a successful add-task creates exactly one task, with status Pending
\* and the requested lead as its owner, for a lead that is in the store when
\* the request arrives; the task is appended to that lead's task list and to
\* the global task list, and no other lead's task list changes.
C12_TaskForExistingLead ==
    [][Succeeded("addTask") =>
          /\ last'.req.leadId \in Ids(leads)
          /\ Len(leads') = Len(leads)
          /\ Len(tasks') = Len(tasks) + 1
          /\ LET k == FindIndex(leads, last'.req.leadId)
                 t == tasks'[Len(tasks')]
             IN  /\ t.status = "Pending"
                 /\ t.leadId = last'.req.leadId
                 /\ tasks' = Append(tasks, t)
                 /\ leads'[k].tasks = Append(leads[k].tasks, t)
                 /\ \A i \in 1..Len(leads) : i # k => leads'[i].tasks = leads[i].tasks]_vars

Today == {t \in 0..Horizon : (t + 1) \div DayLength = (now + 1) \div DayLength}

\* C14: a lead with a Pending Follow-up task due today and no activity
\* stamped today satisfies the missed-follow-up predicate; once an activity
\* has been logged for the lead today the lead does not satisfy it, neither
\* right after the logging nor on the read that follows, and the logging
\* changes neither the lead's tasks nor the global task list.
C14_LoggingClearsMissedFollowUp ==
    [][/\ \A l \in Range(leads) :
            ((\E i \in 1..Len(l.tasks) :
                  /\ l.tasks[i].type = "Follow-up" /\ l.tasks[i].status = "Pending"
                  /\ DateParse(l.tasks[i].dueDate) \in Today)
             /\ (\A i \in 1..Len(l.activities) :
                  DateParse(l.activities[i].timestamp) \notin Today))
            => MissedFollowUp(l)
       /\ (Succeeded("addActivity") /\ last'.req.leadId \in Ids(leads)) =>
            LET k == FindIndex(leads, last'.req.leadId)
            IN  /\ ~MissedFollowUp(leads'[k])
                /\ leads'[k].tasks = leads[k].tasks
                /\ tasks' = tasks
       /\ (last.op = "addActivity" /\ last.kind = "message" /\ Served("read")) =>
            ~MissedFollowUp(leads'[FindIndex(leads', last.req.leadId)])]_vars

\* an activity was logged today for a lead that has a Pending Follow-up due
\* today and whose earlier activity is from another day
C14_Witness ==
    /\ last.op = "addActivity"
    /\ last.kind = "message"
    /\ LET k == FindIndex(leads, last.req.leadId)
       IN  /\ k # 0
           /\ Len(leads[k].activities) = 2
           /\ IsToday(leads[k].activities[1].timestamp)
           /\ ~IsToday(leads[k].activities[2].timestamp)
           /\ \E i \in 1..Len(leads[k].tasks) :
                 /\ leads[k].tasks[i].type = "Follow-up"
                 /\ leads[k].tasks[i].status = "Pending"
                 /\ IsToday(leads[k].tasks[i].dueDate)
           /\ ~MissedFollowUp(leads[k])

\* the pending Follow-up tasks of a lead
Pending(lead) ==
    {t \in Range(lead.tasks) : t.type = "Follow-up" /\ t.status = "Pending"}

\* C15, as stated: in a priority-sorted column every lead that has a pending
\* Follow-up task of High priority stands before every lead whose pending
\* Follow-up tasks are all of Low priority, whatever the due dates.
C15_HighBeforeLow ==
    column.isSorted =>
        \A i, j \in 1..Len(column.displayedLeads) :
            (/\ \E t \in Pending(column.displayedLeads[i]) : t.priority = "High"
             /\ Pending(column.displayedLeads[j]) # {}
             /\ \A t \in Pending(column.displayedLeads[j]) : t.priority = "Low")
            => i < j

\* the pending Follow-up tasks of a lead that are due first
DueFirst(lead) ==
    {t \in Pending(lead) :
        \A u \in Pending(lead) : DateParse(t.dueDate) <= DateParse(u.dueDate)}

\* C15, amended: in a priority-sorted column every lead whose next pending
\* Follow-up task (the one due first) is of High priority stands before every
\* lead whose next pending Follow-up task is of Low priority, whatever the
\* due dates.
C15_NextHighBeforeNextLow ==
    column.isSorted =>
        \A i, j \in 1..Len(column.displayedLeads) :
            (/\ DueFirst(column.displayedLeads[i]) # {}
             /\ \A t \in DueFirst(column.displayedLeads[i]) : t.priority = "High"
             /\ DueFirst(column.displayedLeads[j]) # {}
             /\ \A t \in DueFirst(column.displayedLeads[j]) : t.priority = "Low")
            => i < j

\* a lead whose High follow-up is due later stands before a lead whose Low
\* follow-up is due earlier, against the order of the store
C15_Witness ==
    /\ column.isSorted
    /\ Len(column.displayedLeads) = 2
    /\ column.displayedLeads[1].id = "002"
    /\ \E t \in DueFirst(column.displayedLeads[1]) :
          /\ t.priority = "High"
          /\ \E u \in DueFirst(column.displayedLeads[2]) :
                u.priority = "Low" /\ DateParse(u.dueDate) < DateParse(t.dueDate)

\* C16: a bulk-delete request, and a bulk-update request in stage or
\* single-assignee mode, whose list of lead ids is empty is answered with an
\* error result and leaves the store as it was.
C16_EmptySelectionRejected ==
    [][(/\ nOps' = nOps + 1
        /\ last'.op \in {"bulkDelete", "bulkUpdate"}
        /\ last'.req.leadIds = <<>>
        /\ last'.op = "bulkUpdate" =>
              /\ last'.req.distributionList = NoEntry
              /\ (last'.req.stage \in Stages \/ last'.req.assignedUserId # Null)) =>
          /\ last'.kind = "error"
          /\ leads' = leads
          /\ tasks' = tasks]_vars

\* C17: a delete request is submitted only from an open dialog whose
\* confirmation text is exactly "DELETE" while no request of that dialog is
\* pending, the bulk-delete operation serves submitted requests only, a
\* closed dialog has an empty confirmation text, and a dialog that opens has
\* its delete button disabled.
C17_DeleteNeedsConfirmation ==
    [][\A k \in DialogKinds :
          /\ Len(dlg'[k].sent) > Len(dlg[k].sent) =>
                /\ dlg[k].open
                /\ dlg[k].text = "DELETE"
                /\ dlg[k].sent = <<>>
                /\ dlg'[k].sent = <<dlg[k].targets>>
          /\ Served("bulkDelete") =>
                \E j \in DialogKinds :
                    /\ dlg[j].sent # <<>>
                    /\ last'.req.leadIds = Head(dlg[j].sent)
          /\ ~dlg'[k].open => dlg'[k].text = ""
          /\ (~dlg[k].open /\ dlg'[k].open) => DeleteDisabled(dlg'[k])]_vars

\* a dialog that was confirmed, cancelled with text in its box or closed by
\* a served delete is open again, and a delete of the store has been served
C17_Witness ==
    /\ last.op = "bulkDelete"
    /\ last.kind = "message"
    /\ \E k \in DialogKinds : dlg[k].open /\ dlg[k].text = "DELETE"

\* C18: once the collection has been initialised no step generates seeded
\* leads again: a read leaves the store as it is, and a step taken on an empty
\* store puts at most the one lead it creates into it.
C18_SeedsGeneratedOnce ==
    [][/\ Served("read") => leads' = leads
       /\ leads = <<>> => Len(leads') <= 1]_vars

\* the ids a bulk-update request targets: the ids of its distribution list
\* in distribution mode, its leadIds otherwise
Targets(f) ==
    IF f.distributionList.text = "json"
    THEN {f.distributionList.value[i].leadId : i \in 1..Len(f.distributionList.value)}
    ELSE Range(f.leadIds)

\* the fields a bulk-update request writes to the lead id, with their values
Written(f, id) ==
    IF id \notin Targets(f) THEN <<>>
    ELSE IF f.distributionList.text = "json"
    THEN [k \in {"assignedUserId"} |->
            CHOOSE u \in {f.distributionList.value[i].assignedUserId :
                            i \in {j \in 1..Len(f.distributionList.value) :
                                     f.distributionList.value[j].leadId = id}} : TRUE]
    ELSE [k \in {x \in {"stage", "assignedUserId"} : f[x] # Null} |-> f[k]]

\* C19: when the two requests issued together have both been answered, both
\* answers are success messages, every lead has each field as the request
\* applied last wrote it, and a field written only by the request applied
\* first as that request wrote it.
C19_LastWriterWins ==
    (Len(inflight) = 2 /\ Answered = 2) =>
        \E a, b \in 1..2 :
            /\ inflight[a].at < inflight[b].at
            /\ inflight[a].answer.kind = "message"
            /\ inflight[b].answer.kind = "message"
            /\ \A i \in 1..Len(leads) :
                  LET first == Written(inflight[a].form, leads[i].id)
                      second == Written(inflight[b].form, leads[i].id)
                  IN  /\ \A k \in DOMAIN second : leads[i][k] = second[k]
                      /\ \A k \in DOMAIN first \ DOMAIN second :
                            leads[i][k] = first[k]

\* both requests are answered, a lead of the store is a target of both,
\* they write different values to one of its fields, and another lead is a
\* target of one request only
C19_Witness ==
    /\ Len(inflight) = 2 /\ Answered = 2
    /\ \E i, j \in 1..Len(leads) :
          /\ leads[i].id \in Targets(inflight[1].form) \cap Targets(inflight[2].form)
          /\ \E k \in DOMAIN Written(inflight[1].form, leads[i].id)
                        \cap DOMAIN Written(inflight[2].form, leads[i].id) :
                Written(inflight[1].form, leads[i].id)[k]
                    # Written(inflight[2].form, leads[i].id)[k]
          /\ leads[j].id \in Targets(inflight[1].form) \ Targets(inflight[2].form)

\* C20: after a successful bulk update in distribution mode every lead of
\* the store whose id is listed has the assignee paired with its id, each
\* counselor has as many of the listed leads in the store as the list pairs
\* with that counselor, and leads that are not listed and fields other than
\* the assignee are as before.
C20_DistributionApplied ==
    [][(/\ Succeeded("bulkUpdate")
        /\ last'.req.distributionList.text = "json"
        /\ Len(last'.req.distributionList.value) > 0) =>
          LET list == last'.req.distributionList.value
              listed == {list[k].leadId : k \in 1..Len(list)}
          IN  /\ Len(leads') = Len(leads)
              /\ \A i \in 1..Len(leads') :
                    /\ \A k \in 1..Len(list) :
                          list[k].leadId = leads'[i].id =>
                              leads'[i].assignedUserId = list[k].assignedUserId
                    /\ leads'[i].id \notin listed => leads'[i] = leads[i]
                    /\ [leads'[i] EXCEPT !.assignedUserId = leads[i].assignedUserId]
                          = leads[i]
              /\ \A c \in {list[k].assignedUserId : k \in 1..Len(list)} :
                    Cardinality({i \in 1..Len(leads') :
                                    /\ leads'[i].id \in listed
                                    /\ leads'[i].assignedUserId = c})
                        = Cardinality({k \in 1..Len(list) : list[k].assignedUserId = c})
      ]_vars

\* C21: after a successful bulk update with a stage or a single assignee and
\* id set S, every lead whose id is in S has the supplied values, every lead
\* whose id is not in S is as before, no other field of a lead changes, and
\* the collection has the same leads in the same order.
C21_SingleUpdateFrame ==
    [][(/\ Succeeded("bulkUpdate")
        /\ ~(/\ last'.req.distributionList.text = "json"
             /\ Len(last'.req.distributionList.value) > 0)) =>
          LET f == last'.req
              S == Range(f.leadIds)
              supplied == {k \in {"stage", "assignedUserId"} : f[k] \notin {Null, ""}}
          IN  /\ Len(leads') = Len(leads)
              /\ \A i \in 1..Len(leads') :
                    /\ leads'[i].id = leads[i].id
                    /\ DOMAIN leads'[i] = DOMAIN leads[i]
                    /\ leads'[i].id \in S => \A k \in supplied : leads'[i][k] = f[k]
                    /\ leads'[i].id \notin S => leads'[i] = leads[i]
                    /\ \A k \in DOMAIN leads[i] \ supplied : leads'[i][k] = leads[i][k]
      ]_vars

\* a stage update has been served that moved one lead of the store and left
\* another, which was not selected, where it was
C21_Witness ==
    /\ last.op = "bulkUpdate"
    /\ last.kind = "message"
    /\ last.req.stage = "Qualified"
    /\ last.req.leadIds = <<"001">>
    /\ \E i, j \in 1..Len(leads) :
          /\ leads[i].id = "001" /\ leads[i].stage = "Qualified"
          /\ leads[j].id = "002" /\ leads[j].stage # "Qualified"

\* the store ls after the pairs of list have been written to it: the assignee
\* of a listed lead is the one paired with its id, all else is as in ls
Assigned(ls, list) ==
    [i \in 1..Len(ls) |->
        IF \E k \in 1..Len(list) : list[k].leadId = ls[i].id
        THEN [ls[i] EXCEPT !.assignedUserId =
                list[CHOOSE k \in 1..Len(list) :
                        /\ list[k].leadId = ls[i].id
                        /\ \A j \in (k + 1)..Len(list) : list[j].leadId # ls[i].id
                    ].assignedUserId]
        ELSE ls[i]]

\* C22, as stated: a successful bulk update whose request carries a
\* distribution list writes the paired assignees to the listed leads and
\* nothing else, whatever its leadIds, stage and single assignee are, and its
\* message reports the number of pairs.
C22_ListOverridesRest ==
    [][(Succeeded("bulkUpdate") /\ last'.req.distributionList.text = "json") =>
          LET list == last'.req.distributionList.value
          IN  /\ leads' = Assigned(leads, list)
              /\ last'.text = ToStr(Len(list)) \o " leads have been distributed successfully."
      ]_vars

\* C22, amended: a successful bulk update whose request carries a
\* distribution list with at least one pair writes the paired assignees to
\* the listed leads and nothing else, whatever its leadIds, stage and single
\* assignee are, and its message reports the number of pairs.
C22_NonEmptyListOverridesRest ==
    [][(/\ Succeeded("bulkUpdate")
        /\ last'.req.distributionList.text = "json"
        /\ Len(last'.req.distributionList.value) > 0) =>
          LET list == last'.req.distributionList.value
          IN  /\ leads' = Assigned(leads, list)
              /\ last'.text = ToStr(Len(list)) \o " leads have been distributed successfully."
      ]_vars

\* a request with a one-pair list for lead 001, the id 002 and the stage
\* Enrolled has been served: lead 001 has the paired assignee and lead 002 is
\* not in that stage
C22_Witness ==
    /\ last.op = "bulkUpdate"
    /\ last.kind = "message"
    /\ last.req.stage = "Enrolled"
    /\ last.req.leadIds = <<"002">>
    /\ last.req.distributionList.text = "json"
    /\ Len(last.req.distributionList.value) = 1
    /\ \E i, j \in 1..Len(leads) :
          /\ leads[i].id = "001" /\ leads[i].assignedUserId = "user-6"
          /\ leads[j].id = "002" /\ leads[j].stage # "Enrolled"

\* C23: in every reachable state the stage of every lead in the store is one
\* of New, Contacted, Qualified, Application, Enrolled, Dropped.
C23_StageInRange ==
    \A i \in 1..Len(leads) :
        leads[i].stage \in {"New", "Contacted", "Qualified", "Application",
                            "Enrolled", "Dropped"}

\* a request naming the stage Won has been answered with an error, after a
\* request that moved a lead to a stage no seed has
C23_Witness ==
    /\ last.op \in {"bulkUpdate", "addActivity"}
    /\ last.kind = "error"
    /\ last.req.stage = "Won"
    /\ \E i \in 1..Len(leads) : leads[i].stage \in {"Qualified", "Dropped", "Enrolled"}

KeptIn(old, new) ==
    \E at \in [1..Len(old) -> 1..Len(new)] :
        /\ \A j \in 1..Len(old) : new[at[j]] = old[j]
        /\ \A j, k \in 1..Len(old) : j < k => at[j] < at[k]

\* C25: a step that serves an add-activity, add-task, update-lead or
\* bulk-update request keeps, for every lead that stays in the store, the
\* activities the lead had, with the same fields and in the same order.
C25_ActivitiesKept ==
    [][(\E op \in {"addActivity", "addTask", "updateLead", "bulkUpdate"} : Served(op)) =>
          \A i \in 1..Len(leads) :
              (i <= Len(leads') /\ leads'[i].id = leads[i].id) =>
                  KeptIn(leads[i].activities, leads'[i].activities)
      ]_vars

\* lead 001 has been updated after an activity was logged for it, and the
\* logged activity is at the head of its list
C25_Witness ==
    /\ last.op = "updateLead"
    /\ last.kind = "message"
    /\ last.req.id = "001"
    /\ \E i \in 1..Len(leads) :
          /\ leads[i].id = "001"
          /\ leads[i].name = "Asha K"
          /\ leads[i].activities # <<>>
          /\ leads[i].activities[1].outcome = "Demo scheduled"

\* C26: a successful bulk delete leaves the global task list as it was, so
\* the tasks of the deleted leads are still in it under the deleted ids.
C26_TasksOutliveLeads ==
    [][Succeeded("bulkDelete") =>
          /\ tasks' = tasks
          /\ \A k \in 1..Len(tasks) :
                tasks[k].leadId \in Range(last'.req.leadIds) =>
                    \E m \in 1..Len(tasks') : tasks'[m] = tasks[k]
      ]_vars

\* a lead that had a task has been deleted, and its task is in the global
\* list under the id that no lead of the store has
C26_Witness ==
    /\ last.op = "bulkDelete"
    /\ last.kind = "message"
    /\ \E k \in 1..Len(tasks) :
          /\ tasks[k].leadId \in Range(last.req.leadIds)
          /\ tasks[k].leadId \notin Ids(leads)

\* C27: in every reachable state every task in the list of a lead of the
\* store is in the global task list.
C27_LeadTasksInGlobalList ==
    \A i \in 1..Len(leads) :
        \A k \in 1..Len(leads[i].tasks) :
            \E m \in 1..Len(tasks) : tasks[m] = leads[i].tasks[k]

\* C28: the message of a successful bulk delete reports the number of leads
\* the step removed from the store, and the message of a successful bulk
\* stage or assignee update reports the number of leads of the store the
\* update applied to.
C28_ReportedCountIsActual ==
    [][/\ Succeeded("bulkDelete") =>
            last'.text = ToStr(Len(leads) - Len(leads')) \o " leads deleted successfully."
       /\ (/\ Succeeded("bulkUpdate")
           /\ last'.req.distributionList.text # "json"
           /\ last'.req.stage # Null) =>
            last'.text =
                ToStr(Cardinality({i \in 1..Len(leads) :
                                      leads[i].id \in Range(last'.req.leadIds)}))
                \o " lead(s) moved to " \o last'.req.stage \o "."
       /\ (/\ Succeeded("bulkUpdate")
           /\ last'.req.distributionList.text # "json"
           /\ last'.req.stage = Null
           /\ last'.req.assignedUserId # Null) =>
            last'.text =
                ToStr(Cardinality({i \in 1..Len(leads) :
                                      leads[i].id \in Range(last'.req.leadIds)}))
                \o " lead(s) assigned to " \o UserName(last'.req.assignedUserId) \o "."
      ]_vars

\* the time of the most recent activity of a lead, its creation time when it
\* has no activity
LastTouched(lead) ==
    IF lead.activities = <<>> THEN DateParse(lead.createdAt)
    ELSE CHOOSE t \in {DateParse(lead.activities[k].timestamp) :
                          k \in 1..Len(lead.activities)} :
            \A k \in 1..Len(lead.activities) : t >= DateParse(lead.activities[k].timestamp)

\* C29: in a priority-sorted column no lead without a pending Follow-up task
\* stands before a lead that has one, and of two leads without one the lead
\* touched later stands first.
C29_FollowUpsFirstThenRecent ==
    column.isSorted =>
        \A i, j \in 1..Len(column.displayedLeads) :
            i < j =>
                LET a == column.displayedLeads[i]
                    b == column.displayedLeads[j]
                IN  /\ Pending(b) # {} => Pending(a) # {}
                    /\ (Pending(a) = {} /\ Pending(b) = {}) =>
                          LastTouched(a) >= LastTouched(b)

\* a priority-sorted column in which, of two leads without a pending
\* follow-up, the one called later is ahead though it was created no later
C29_Witness ==
    /\ column.isSorted
    /\ Len(column.displayedLeads) >= 2
    /\ \E i, j \in 1..Len(column.displayedLeads) :
          /\ i < j
          /\ Pending(column.displayedLeads[i]) = {}
          /\ Pending(column.displayedLeads[j]) = {}
          /\ column.displayedLeads[i].id = "002"
          /\ column.displayedLeads[j].id = "001"
          /\ LastTouched(column.displayedLeads[i]) > LastTouched(column.displayedLeads[j])

\* the comparison of sortLeadsByPriority for two leads
Compare(a, b) == CompareByPriority(a, b, getNextFollowUp(a), getNextFollowUp(b))

Sign(n) == IF n < 0 THEN 0 - 1 ELSE IF n > 0 THEN 1 ELSE 0

\* the orders in which the cards of s can reach the column
Orders(s) ==
    {[i \in 1..Len(s) |-> s[p[i]]] :
        p \in {q \in [1..Len(s) -> 1..Len(s)] :
                  \A i, j \in 1..Len(s) : i # j => q[i] # q[j]}}

\* C30: for the leads of the store the comparison gives opposite signs for
\* (a, b) and (b, a) and is transitive; the priority-sorted order of the
\* cards of a stage is, whatever order they come in, the same up to leads
\* that tie in the comparison and were created at the same time; and leads
\* that tie stand in descending order of creation time.
C30_ConsistentOrder ==
    /\ \A cmp \in {[a \in 1..Len(leads) |-> [b \in 1..Len(leads) |->
                        Compare(leads[a], leads[b])]]} :
          /\ \A a, b \in 1..Len(leads) : Sign(cmp[a][b]) = 0 - Sign(cmp[b][a])
          /\ \A a, b, c \in 1..Len(leads) :
                (cmp[a][b] <= 0 /\ cmp[b][c] <= 0) => cmp[a][c] <= 0
    /\ \A stage \in {leads[i].stage : i \in 1..Len(leads)} :
          \A cards \in {LeadsByStage(leads, stage)} :
              \A sorted \in {DisplayedLeads(cards, TRUE)} :
                  /\ \A other \in Orders(cards) :
                        \A out \in {DisplayedLeads(other, TRUE)} :
                            \A k \in 1..Len(cards) :
                                /\ Compare(out[k], sorted[k]) = 0
                                /\ out[k].createdAt = sorted[k].createdAt
                  /\ \A i, j \in 1..Len(sorted) :
                        (i < j /\ Compare(sorted[i], sorted[j]) = 0) =>
                            GetTime(sorted[i].createdAt) >= GetTime(sorted[j].createdAt)

\* the New column holds two leads that tie in the comparison, each with a
\* planned follow-up, and the one created later stands first though it is
\* behind the other in the store
C30_Witness ==
    LET sorted == DisplayedLeads(LeadsByStage(leads, "New"), TRUE)
    IN  \E i, j \in 1..Len(sorted) :
            /\ i < j
            /\ sorted[i].id = LeadId(SeedCount + 1)
            /\ sorted[j].id = "001"
            /\ sorted[i].tasks # <<>>
            /\ sorted[j].tasks # <<>>
            /\ Compare(sorted[i], sorted[j]) = 0
            /\ GetTime(sorted[i].createdAt) > GetTime(sorted[j].createdAt)

====
